---- MODULE Spec2Model ----
(***************************************************************************)
(* BSIE pipeline state core: the state catalog (state/constants.py), the   *)
(* statements and state_history tables (db/models) and the StateController *)
(* (state/controller.py) that moves a statement through the pipeline.      *)
(*                                                                         *)
(* The durable store is the pair (statements, state_history).  Every       *)
(* controller owns one database session; a call that reaches              *)
(* session.commit() is modelled in two steps, the load of the row (with    *)
(* the checks the code makes on the loaded values, which touch no shared   *)
(* state) and the commit of the session's unit of work.  Calls of          *)
(* different controllers interleave between the two steps, as they do      *)
(* between the SELECT and the COMMIT of two database sessions.             *)
(*                                                                         *)
(* The upload endpoint (api/routes/statements.py) and IngestService.ingest *)
(* (services/ingest.py) are the caller that originates statements: uploads *)
(* holds the position of each request in that code and storage the files   *)
(* it has written.                                                         *)
(***************************************************************************)
EXTENDS Integers, Sequences, FiniteSets, TLC

VARIABLES statements, state_history, session, result, uploads, storage

vars == <<statements, state_history, session, result, uploads, storage>>

-----------------------------------------------------------------------------
(* Bounds and input sets *)

\* Bound on the number of rows of state_history (and so on state_version).
MaxHistory == 3

StatementIds == {"stmt_a", "stmt_b"}
Hashes == {"sha_x", "sha_y"}
Controllers == {"c1", "c2"}

\* Python None / SQL NULL in a string-typed field.
None == "None"
\* The placeholder the controller reports when no row was found.
UNKNOWN == "UNKNOWN"
\* No row with that primary key in table statements.
NoRow ==
    [sha256 |-> None, current_state |-> None, state_version |-> 0,
     original_filename |-> None, file_size_bytes |-> 0, page_count |-> 0,
     storage_path |-> None, template_id |-> None, template_version |-> None,
     error_code |-> None, error_message |-> None, retry_count |-> 0,
     artifacts |-> {}]

-----------------------------------------------------------------------------
(* State catalog: state/constants.py *)

State ==
    { "UPLOADED", "INGESTED", "CLASSIFIED", "ROUTED", "TEMPLATE_SELECTED",
      "TEMPLATE_MISSING", "EXTRACTION_READY", "EXTRACTING", "EXTRACTION_FAILED",
      "RECONCILING", "RECONCILIATION_FAILED", "HUMAN_REVIEW_REQUIRED",
      "COMPLETED" }

TRANSITION_MATRIX ==
    [ UPLOADED              |-> {"INGESTED", "HUMAN_REVIEW_REQUIRED"},
      INGESTED              |-> {"CLASSIFIED"},
      CLASSIFIED            |-> {"ROUTED"},
      ROUTED                |-> {"TEMPLATE_SELECTED", "TEMPLATE_MISSING"},
      TEMPLATE_SELECTED     |-> {"EXTRACTION_READY"},
      TEMPLATE_MISSING      |-> {"HUMAN_REVIEW_REQUIRED"},
      EXTRACTION_READY      |-> {"EXTRACTING"},
      EXTRACTING            |-> {"RECONCILING", "EXTRACTION_FAILED"},
      EXTRACTION_FAILED     |-> {"HUMAN_REVIEW_REQUIRED"},
      RECONCILING           |-> {"COMPLETED", "RECONCILIATION_FAILED"},
      RECONCILIATION_FAILED |-> {"HUMAN_REVIEW_REQUIRED"},
      HUMAN_REVIEW_REQUIRED |-> {"COMPLETED", "EXTRACTION_READY"},
      COMPLETED             |-> {} ]

STATE_REQUIRED_ARTIFACTS ==
    [ INGESTED    |-> <<"ingest_receipt">>,
      CLASSIFIED  |-> <<"classification">>,
      ROUTED      |-> <<"route_decision">>,
      RECONCILING |-> <<"extraction_result", "transactions">>,
      COMPLETED   |-> <<"reconciliation", "final_transactions">> ]

\* A catalog in which TEMPLATE_MISSING is terminal.
GetAllowedTransitionsTemplateMissingEnds(from_state) ==
    IF from_state = "TEMPLATE_MISSING" THEN {}
    ELSE IF from_state \in DOMAIN TRANSITION_MATRIX
    THEN TRANSITION_MATRIX[from_state]
    ELSE {}

\* A catalog in which a completed statement can be sent back to review.
GetAllowedTransitionsReopens(from_state) ==
    IF from_state = "COMPLETED" THEN {"HUMAN_REVIEW_REQUIRED"}
    ELSE TRANSITION_MATRIX[from_state]

\* TRANSITION_MATRIX.get(from_state, set())
get_allowed_transitions(from_state) ==
    IF from_state \in DOMAIN TRANSITION_MATRIX
    THEN TRANSITION_MATRIX[from_state]
    ELSE {}

\* A legality predicate that also lets a statement go back along an edge.
IsValidTransitionEitherWay(from_state, to_state) ==
    \/ to_state \in get_allowed_transitions(from_state)
    \/ from_state \in get_allowed_transitions(to_state)

is_valid_transition(from_state, to_state) ==
    to_state \in get_allowed_transitions(from_state)

-----------------------------------------------------------------------------
(* StateController: the pure helpers *)

validate_transition(from_state, to_state) ==
    is_valid_transition(from_state, to_state)

\* A lookup that asks for the route decision on every entry past routing.
GetRequiredArtifactsDefaultsToRoute(to_state) ==
    IF to_state \in DOMAIN STATE_REQUIRED_ARTIFACTS
    THEN STATE_REQUIRED_ARTIFACTS[to_state]
    ELSE IF to_state \in {"TEMPLATE_SELECTED", "TEMPLATE_MISSING"}
    THEN <<"route_decision">>
    ELSE << >>

\* STATE_REQUIRED_ARTIFACTS.get(to_state, [])
get_required_artifacts(to_state) ==
    IF to_state \in DOMAIN STATE_REQUIRED_ARTIFACTS
    THEN STATE_REQUIRED_ARTIFACTS[to_state]
    ELSE << >>

\* Only the first required artifact is looked for.
MissingArtifactsFirstOnly(to_state, artifacts) ==
    LET required == get_required_artifacts(to_state)
    IN  IF required # << >> /\ required[1] \notin artifacts
        THEN << required[1] >>
        ELSE << >>

\* missing = [a for a in required_artifacts if a not in artifacts]
\* (artifacts is a dict; only its keys are read)
MissingArtifacts(to_state, artifacts) ==
    LET NotSupplied(a) == a \notin artifacts
    IN  SelectSeq(get_required_artifacts(to_state), NotSupplied)

\* metadata is a dict, modelled as a set of <<key, value>> pairs.
HasKey(metadata, key) == \E p \in metadata : p[1] = key
Lookup(metadata, key) == (CHOOSE p \in metadata : p[1] = key)[2]

-----------------------------------------------------------------------------
(* Inputs of the calls *)

Triggers == {"stage_complete"}
\* The caller behind each controller: a pipeline worker that names itself,
\* and the API, which passes no worker_id.
WorkerOf == [c1 |-> "worker_1", c2 |-> None]
Actors == {"admin"}
Reasons == {"stuck"}

\* Artifact bundles (the keys of the artifacts dict): empty, complete,
\* incomplete and over-complete ones.
ArtifactBundles ==
    { {},
      {"ingest_receipt"},
      {"classification"},
      {"route_decision", "debug_log"},
      {"extraction_result"},
      {"extraction_result", "transactions"},
      {"final_transactions"},
      {"reconciliation", "final_transactions"} }

\* Metadata dicts: none, or one carrying expected_version.
Metadatas(versions) ==
    { {} } \cup { {<<"expected_version", v>>} : v \in versions }

-----------------------------------------------------------------------------
(* Rows, units of work and results *)

\* A row of table statements (db/models/statement.py), as create_statement
\* fills it: the file columns from its arguments (one file name, size and
\* page count stand for all), the template and error columns NULL,
\* retry_count at its default 0 and artifacts NULL (the empty map).  The
\* timestamps created_at and updated_at are left out.
StatementRow(sha256, current_state, state_version) ==
    [sha256 |-> sha256, current_state |-> current_state,
     state_version |-> state_version,
     original_filename |-> "statement.pdf", file_size_bytes |-> 1,
     page_count |-> 1, storage_path |-> "pdfs",
     template_id |-> None, template_version |-> None,
     error_code |-> None, error_message |-> None, retry_count |-> 0,
     artifacts |-> {}]

\* A row of table state_history (db/models/state_history.py).  A NULL JSON
\* column is the empty collection.
StateHistory(statement_id, from_state, to_state, trigger, worker_id, artifacts_created, transition_metadata) ==
    [statement_id |-> statement_id, from_state |-> from_state,
     to_state |-> to_state, trigger |-> trigger, worker_id |-> worker_id,
     artifacts_created |-> artifacts_created,
     transition_metadata |-> transition_metadata]

NoEntry == StateHistory(None, None, None, None, None, {}, {})

\* The unit of work of a session: the operation that awaits its commit, the
\* statement object as the session holds it and the history entry added.
Idle == [op |-> "idle", statement_id |-> None, statement |-> NoRow,
         history_entry |-> NoEntry, artifacts |-> {}, metadata |-> {}]

\* state/types.py: TransitionError, TransitionResult
TransitionError ==
    [ INVALID_TRANSITION      |-> "invalid_transition",
      MISSING_ARTIFACT        |-> "missing_artifact",
      VALIDATION_FAILED       |-> "validation_failed",
      CONCURRENT_MODIFICATION |-> "concurrent_modification",
      STATE_NOT_FOUND         |-> "state_not_found",
      TIMEOUT                 |-> "timeout" ]

TransitionResult(success, previous_state, current_state, statement_id, error_type, artifacts_created, metadata) ==
    [kind |-> "result", success |-> success,
     previous_state |-> previous_state, current_state |-> current_state,
     statement_id |-> statement_id, error |-> None, error_type |-> error_type,
     artifacts_created |-> artifacts_created, metadata |-> metadata]

\* The call ended with an exception instead of a value.
Raised(exception, statement_id) ==
    [kind |-> "raised", success |-> FALSE,
     previous_state |-> None, current_state |-> None,
     statement_id |-> statement_id, error |-> None, error_type |-> exception,
     artifacts_created |-> {}, metadata |-> {}]

\* create_statement returns the Statement object.
Created(statement_id, statement) ==
    [kind |-> "statement", success |-> TRUE,
     previous_state |-> None, current_state |-> statement.current_state,
     statement_id |-> statement_id, error |-> None, error_type |-> None,
     artifacts_created |-> {}, metadata |-> {}]

NoResult ==
    [kind |-> "none", success |-> FALSE,
     previous_state |-> None, current_state |-> None,
     statement_id |-> None, error |-> None, error_type |-> None,
     artifacts_created |-> {}, metadata |-> {}]

\* The request of a controller's session: where it stands in
\* upload_statement / IngestService.ingest, with the id and hash it works on.
NoUpload == [pc |-> "none", statement_id |-> None, sha256 |-> None]

\* An ingest that carries on when create_statement has raised.
ResumeIgnoresException(upload, method, value) ==
    IF upload.pc = "create_statement" /\ method = "create_statement"
    THEN [upload EXCEPT !.pc = "write_receipt"]
    ELSE IF upload.pc = "transition" /\ method = "transition"
    THEN [upload EXCEPT !.pc = IF value.kind = "raised" THEN "raised"
                                ELSE "return_receipt"]
    ELSE upload

\* Where ingest goes on when the controller call it awaits ends: an
\* exception leaves ingest, a returned value lets it continue with the next
\* statement of its body; the value itself is not looked at.
Resume(upload, method, value) ==
    IF upload.pc = "create_statement" /\ method = "create_statement"
    THEN [upload EXCEPT !.pc = IF value.kind = "raised" THEN "raised"
                                ELSE "write_receipt"]
    ELSE IF upload.pc = "transition" /\ method = "transition"
    THEN [upload EXCEPT !.pc = IF value.kind = "raised" THEN "raised"
                                ELSE "return_receipt"]
    ELSE upload

\* The method that ends in this step and the value (or exception) that
\* leaves it; NoResult while the call is still awaiting its commit.  The
\* caller that awaited the method goes on; the controller writes no file.
Return(c, method, value) ==
    /\ result' = [method |-> method, value |-> value]
    /\ uploads' = [uploads EXCEPT ![c] = Resume(uploads[c], method, value)]
    /\ UNCHANGED storage

Init ==
    /\ statements = [id \in StatementIds |-> NoRow]
    /\ state_history = << >>
    /\ session = [c \in Controllers |-> Idle]
    /\ result = [method |-> None, value |-> NoResult]
    /\ uploads = [c \in Controllers |-> NoUpload]
    /\ storage = [pdfs |-> {}, artifacts |-> {}]

\* select(Statement).where(Statement.id == statement_id); None when absent
get_statement(statement_id) == statements[statement_id]

Exists(statement_id) == statements[statement_id] # NoRow

\* The unique index on statements.sha256.
HashInUse(sha256) == \E id \in StatementIds : statements[id].sha256 = sha256

\* The rows of state_history of one statement, in commit order.
HistoryOf(statement_id) ==
    LET Mine(row) == row.statement_id = statement_id
    IN  SelectSeq(state_history, Mine)

-----------------------------------------------------------------------------
(* StateController.create_statement *)

\* The Statement and its first StateHistory are added to the session.
CreateStatementAdd(c, statement_id, sha256) ==
    /\ session[c].op = "idle"
    /\ session' = [session EXCEPT ![c] =
          [op |-> "create", statement_id |-> statement_id,
           statement |-> StatementRow(sha256, "UPLOADED", 1),
           history_entry |->
               StateHistory(statement_id, None, "UPLOADED", "upload", None, {}, {}),
           artifacts |-> {}, metadata |-> {}]]
    /\ Return(c, None, NoResult)
    /\ UNCHANGED <<statements, state_history>>

\* The two INSERTs committed one by one, the second one lost.
CreateStatementCommitNoJournal(c) ==
    /\ session[c].op = "create"
    /\ LET u == session[c]
       IN  IF Exists(u.statement_id) \/ HashInUse(u.statement.sha256)
           THEN /\ Return(c, "create_statement", Raised("IntegrityError", u.statement_id))
                /\ UNCHANGED statements
           ELSE /\ statements' = [statements EXCEPT ![u.statement_id] = u.statement]
                /\ Return(c, "create_statement", Created(u.statement_id, u.statement))
    /\ session' = [session EXCEPT ![c] = Idle]
    /\ UNCHANGED state_history

\* The statement merged into the table instead of inserted: an existing row
\* with the same primary key is overwritten.
CreateStatementCommitUpsert(c) ==
    /\ session[c].op = "create"
    /\ Len(state_history) < MaxHistory
    /\ LET u == session[c]
       IN  /\ statements' = [statements EXCEPT ![u.statement_id] = u.statement]
           /\ state_history' = Append(state_history, u.history_entry)
           /\ Return(c, "create_statement", Created(u.statement_id, u.statement))
    /\ session' = [session EXCEPT ![c] = Idle]

\* A statements table whose sha256 column has no unique index.
CreateStatementCommitHashNotUnique(c) ==
    /\ session[c].op = "create"
    /\ LET u == session[c]
       IN  IF Exists(u.statement_id)
           THEN /\ Return(c, "create_statement", Raised("IntegrityError", u.statement_id))
                /\ UNCHANGED <<statements, state_history>>
           ELSE /\ Len(state_history) < MaxHistory
                /\ statements' = [statements EXCEPT ![u.statement_id] = u.statement]
                /\ state_history' = Append(state_history, u.history_entry)
                /\ Return(c, "create_statement", Created(u.statement_id, u.statement))
    /\ session' = [session EXCEPT ![c] = Idle]

\* session.commit(): both INSERTs in one transaction.  The primary key of
\* statements and the unique index on sha256 reject a duplicate; the
\* transaction is then rolled back and IntegrityError is raised.
CreateStatementCommit(c) ==
    /\ session[c].op = "create"
    /\ LET u == session[c]
       IN  IF Exists(u.statement_id) \/ HashInUse(u.statement.sha256)
           THEN /\ Return(c, "create_statement", Raised("IntegrityError", u.statement_id))
                /\ UNCHANGED <<statements, state_history>>
           ELSE /\ Len(state_history) < MaxHistory
                /\ statements' = [statements EXCEPT ![u.statement_id] = u.statement]
                /\ state_history' = Append(state_history, u.history_entry)
                /\ Return(c, "create_statement", Created(u.statement_id, u.statement))
    /\ session' = [session EXCEPT ![c] = Idle]

-----------------------------------------------------------------------------
(* StateController.transition *)

\* The legality check made before the version check.
TransitionCheckLegalityFirst(statement, to_state, artifacts, metadata) ==
    IF statement = NoRow
    THEN TransitionError.STATE_NOT_FOUND
    ELSE IF ~validate_transition(statement.current_state, to_state)
    THEN TransitionError.INVALID_TRANSITION
    ELSE IF /\ HasKey(metadata, "expected_version")
            /\ statement.state_version # Lookup(metadata, "expected_version")
    THEN TransitionError.CONCURRENT_MODIFICATION
    ELSE IF MissingArtifacts(to_state, artifacts) # << >>
    THEN TransitionError.MISSING_ARTIFACT
    ELSE None

\* The artifact check made before the legality check.
TransitionCheckArtifactsFirst(statement, to_state, artifacts, metadata) ==
    IF statement = NoRow
    THEN TransitionError.STATE_NOT_FOUND
    ELSE IF /\ HasKey(metadata, "expected_version")
            /\ statement.state_version # Lookup(metadata, "expected_version")
    THEN TransitionError.CONCURRENT_MODIFICATION
    ELSE IF MissingArtifacts(to_state, artifacts) # << >>
    THEN TransitionError.MISSING_ARTIFACT
    ELSE IF ~validate_transition(statement.current_state, to_state)
    THEN TransitionError.INVALID_TRANSITION
    ELSE None

\* The version check made last, after the legality and artifact checks.
TransitionCheckVersionLast(statement, to_state, artifacts, metadata) ==
    IF statement = NoRow
    THEN TransitionError.STATE_NOT_FOUND
    ELSE IF ~validate_transition(statement.current_state, to_state)
    THEN TransitionError.INVALID_TRANSITION
    ELSE IF MissingArtifacts(to_state, artifacts) # << >>
    THEN TransitionError.MISSING_ARTIFACT
    ELSE IF /\ HasKey(metadata, "expected_version")
            /\ statement.state_version # Lookup(metadata, "expected_version")
    THEN TransitionError.CONCURRENT_MODIFICATION
    ELSE None

\* A version check that is automatic: a call without expected_version is
\* treated as stale.
TransitionCheckVersionRequired(statement, to_state, artifacts, metadata) ==
    IF statement = NoRow
    THEN TransitionError.STATE_NOT_FOUND
    ELSE IF \/ ~HasKey(metadata, "expected_version")
            \/ statement.state_version # Lookup(metadata, "expected_version")
    THEN TransitionError.CONCURRENT_MODIFICATION
    ELSE IF ~validate_transition(statement.current_state, to_state)
    THEN TransitionError.INVALID_TRANSITION
    ELSE IF MissingArtifacts(to_state, artifacts) # << >>
    THEN TransitionError.MISSING_ARTIFACT
    ELSE None

\* The checks of transition on the loaded statement, in the order of the
\* code: the error kind of the first check that fails, None when all pass.
TransitionCheck(statement, to_state, artifacts, metadata) ==
    IF statement = NoRow
    THEN TransitionError.STATE_NOT_FOUND
    ELSE IF /\ HasKey(metadata, "expected_version")
            /\ statement.state_version # Lookup(metadata, "expected_version")
    THEN TransitionError.CONCURRENT_MODIFICATION
    ELSE IF ~validate_transition(statement.current_state, to_state)
    THEN TransitionError.INVALID_TRANSITION
    ELSE IF MissingArtifacts(to_state, artifacts) # << >>
    THEN TransitionError.MISSING_ARTIFACT
    ELSE None

\* The text passed as error= at the return that reports the kind.
ErrorMessage(error_type) ==
    CASE error_type = TransitionError.STATE_NOT_FOUND         -> "Statement not found"
      [] error_type = TransitionError.CONCURRENT_MODIFICATION -> "Version mismatch"
      [] error_type = TransitionError.INVALID_TRANSITION      -> "Invalid transition"
      [] error_type = TransitionError.MISSING_ARTIFACT        -> "Missing required artifacts"

\* A rejection that carries its message but no kind.
RejectedWithoutKind(statement, statement_id, error_type) ==
    LET from_state == IF statement = NoRow THEN UNKNOWN
                      ELSE statement.current_state
    IN  [TransitionResult(FALSE, from_state, from_state, statement_id, None, {}, {})
            EXCEPT !.error = ErrorMessage(error_type)]

\* The result of a rejected call: previous and current state are the loaded
\* state, or UNKNOWN when there is no row.
Rejected(statement, statement_id, error_type) ==
    LET from_state == IF statement = NoRow THEN UNKNOWN
                      ELSE statement.current_state
    IN  [TransitionResult(FALSE, from_state, from_state, statement_id, error_type, {}, {})
            EXCEPT !.error = ErrorMessage(error_type)]

\* The statement object after "current_state = to_state; state_version += 1".
Mutated(statement, to_state) ==
    [statement EXCEPT !.current_state = to_state,
                      !.state_version = statement.state_version + 1]

\* A controller that journals the attempts it rejects.
TransitionLoadJournalsRejection(c, statement_id, to_state, trigger, artifacts, worker_id, metadata) ==
    /\ session[c].op = "idle"
    /\ LET statement == get_statement(statement_id)
           error_type == TransitionCheck(statement, to_state, artifacts, metadata)
       IN  IF error_type # None
           THEN /\ Return(c, "transition", Rejected(statement, statement_id, error_type))
                /\ state_history' = Append(state_history,
                      StateHistory(statement_id, statement.current_state,
                                   statement.current_state, trigger, worker_id,
                                   artifacts, metadata))
                /\ UNCHANGED session
           ELSE /\ session' = [session EXCEPT ![c] =
                      [op |-> "transition", statement_id |-> statement_id,
                       statement |-> Mutated(statement, to_state),
                       history_entry |->
                           StateHistory(statement_id, statement.current_state,
                                        to_state, trigger, worker_id,
                                        artifacts, metadata),
                       artifacts |-> artifacts, metadata |-> metadata]]
                /\ Return(c, None, NoResult)
                /\ UNCHANGED state_history
    /\ UNCHANGED statements

\* Lines 82-154: load, check, mutate the loaded object, add the history
\* entry.  A rejected call returns here; an accepted one awaits its commit.
TransitionLoad(c, statement_id, to_state, trigger, artifacts, worker_id, metadata) ==
    /\ session[c].op = "idle"
    /\ LET statement == get_statement(statement_id)
           error_type == TransitionCheck(statement, to_state, artifacts, metadata)
       IN  IF error_type # None
           THEN /\ Return(c, "transition", Rejected(statement, statement_id, error_type))
                /\ UNCHANGED session
           ELSE /\ session' = [session EXCEPT ![c] =
                      [op |-> "transition", statement_id |-> statement_id,
                       statement |-> Mutated(statement, to_state),
                       history_entry |->
                           StateHistory(statement_id, statement.current_state,
                                        to_state, trigger, worker_id,
                                        artifacts, metadata),
                       artifacts |-> artifacts, metadata |-> metadata]]
                /\ Return(c, None, NoResult)
    /\ UNCHANGED <<statements, state_history>>

\* An UPDATE without its WHERE clause: every row of statements takes the
\* values of the object.
UpdateStatementEveryRow(u) ==
    [id \in StatementIds |->
        IF statements[id] = NoRow THEN NoRow
        ELSE [statements[id] EXCEPT !.current_state = u.statement.current_state,
                                    !.state_version = u.statement.state_version]]

\* An UPDATE that also files the bundle of the call in the artifacts column.
UpdateStatementStoresArtifacts(u) ==
    [statements EXCEPT ![u.statement_id] =
        [@ EXCEPT !.current_state = u.statement.current_state,
                  !.state_version = u.statement.state_version,
                  !.artifacts = u.artifacts]]

\* The UPDATE the session flushes for a loaded statement whose current_state
\* and state_version were assigned: it sets the two columns to the values of
\* the object, for the row with the object's primary key.
UpdateStatement(u) ==
    [statements EXCEPT ![u.statement_id] =
        [@ EXCEPT !.current_state = u.statement.current_state,
                  !.state_version = u.statement.state_version]]

\* A journal that keeps one row per statement: the entry replaces the last
\* row instead of following it.
InsertHistoryOverwritesLast(u) ==
    IF state_history = << >> THEN << u.history_entry >>
    ELSE [state_history EXCEPT ![Len(state_history)] = u.history_entry]

\* The INSERT the session flushes for the history entry it was given.
InsertHistory(u) == Append(state_history, u.history_entry)

\* Lines 156-166: session.commit() writes the UPDATE and the INSERT in one
\* transaction; the call returns success.
TransitionCommit(c) ==
    /\ session[c].op = "transition"
    /\ Len(state_history) < MaxHistory
    /\ LET u == session[c]
       IN  /\ statements' = UpdateStatement(u)
           /\ state_history' = InsertHistory(u)
           /\ Return(c, "transition", TransitionResult(TRUE, u.history_entry.from_state, u.history_entry.to_state, u.statement_id, None, u.artifacts, u.metadata))
    /\ session' = [session EXCEPT ![c] = Idle]

-----------------------------------------------------------------------------
(* StateController.force_transition *)

ForcedMetadata(actor, reason) ==
    { <<"actor", actor>>, <<"reason", reason>>, <<"forced", TRUE>> }

\* force_transition without its check for a missing row.
ForceCheckNothing(statement) == None

\* The one check of force_transition on the loaded statement.
ForceCheck(statement) ==
    IF statement = NoRow THEN TransitionError.STATE_NOT_FOUND ELSE None

\* Lines 180-212: load; no row is the only rejection.
ForceLoad(c, statement_id, to_state, reason, actor) ==
    /\ session[c].op = "idle"
    /\ LET statement == get_statement(statement_id)
       IN  IF ForceCheck(statement) # None
           THEN /\ Return(c, "force_transition", Rejected(statement, statement_id, ForceCheck(statement)))
                /\ UNCHANGED session
           ELSE /\ session' = [session EXCEPT ![c] =
                      [op |-> "force", statement_id |-> statement_id,
                       statement |-> Mutated(statement, to_state),
                       history_entry |->
                           StateHistory(statement_id, statement.current_state,
                                        to_state, "admin_force", None, {},
                                        ForcedMetadata(actor, reason)),
                       artifacts |-> {},
                       metadata |-> { <<"transition_type", "forced">>,
                                      <<"actor", actor>> }]]
                /\ Return(c, None, NoResult)
    /\ UNCHANGED <<statements, state_history>>

\* Lines 214-223.
ForceCommit(c) ==
    /\ session[c].op = "force"
    /\ Len(state_history) < MaxHistory
    /\ LET u == session[c]
       IN  /\ statements' = UpdateStatement(u)
           /\ state_history' = InsertHistory(u)
           /\ Return(c, "force_transition", TransitionResult(TRUE, u.history_entry.from_state, u.history_entry.to_state, u.statement_id, None, {}, u.metadata))
    /\ session' = [session EXCEPT ![c] = Idle]

-----------------------------------------------------------------------------
(* The store fails *)

\* The method whose unit of work a session holds.
MethodOf ==
    [create |-> "create_statement", transition |-> "transition",
     force |-> "force_transition"]

\* A store without transactions: the UPDATE is kept when the commit fails.
CommitFaultKeepsUpdate(c) ==
    /\ session[c].op \in {"transition", "force"}
    /\ Return(c, MethodOf[session[c].op],
              Raised("StorageFault", session[c].statement_id))
    /\ statements' = [statements EXCEPT ![session[c].statement_id] =
          [@ EXCEPT !.current_state = session[c].statement.current_state,
                    !.state_version = session[c].statement.state_version]]
    /\ session' = [session EXCEPT ![c] = Idle]
    /\ UNCHANGED state_history

\* The exception of the commit is swallowed and the call reports success.
CommitFaultMasked(c) ==
    /\ session[c].op # "idle"
    /\ LET u == session[c]
       IN  Return(c, MethodOf[u.op],
                  TransitionResult(TRUE, u.history_entry.from_state, u.history_entry.to_state, u.statement_id, None, u.artifacts, u.metadata))
    /\ session' = [session EXCEPT ![c] = Idle]
    /\ UNCHANGED <<statements, state_history>>

\* session.commit() raises (connection lost, serialization failure): the
\* transaction is not committed, nothing of the unit of work is persisted,
\* and the exception leaves the controller's method.
CommitFault(c) ==
    /\ session[c].op # "idle"
    /\ Return(c, MethodOf[session[c].op],
              Raised("StorageFault", session[c].statement_id))
    /\ session' = [session EXCEPT ![c] = Idle]
    /\ UNCHANGED <<statements, state_history>>

-----------------------------------------------------------------------------

(* The calls, over the controllers cs and the statement ids *)

Creates(cs, ids, hashes) ==
    \/ \E c \in cs, id \in ids, h \in hashes : CreateStatementAdd(c, id, h)
    \/ \E c \in cs : CreateStatementCommit(c)

Transitions(cs, ids, bundles, versions) ==
    \/ \E c \in cs, id \in ids, to \in State, t \in Triggers,
          a \in bundles, m \in Metadatas(versions) :
          TransitionLoad(c, id, to, t, a, WorkerOf[c], m)
    \/ \E c \in cs : TransitionCommit(c)

Forces(cs, ids, targets) ==
    \/ \E c \in cs, id \in ids, to \in targets, r \in Reasons, a \in Actors :
          ForceLoad(c, id, to, r, a)
    \/ \E c \in cs : ForceCommit(c)

Faults(cs) == \E c \in cs : CommitFault(c)

\* Two controllers, each with a session of its own, work on one statement;
\* the administrator forces statements to COMPLETED.
Next ==
    \/ Creates(Controllers, {"stmt_a"}, {"sha_x"})
    \/ Transitions(Controllers, {"stmt_a"}, {{}, {"ingest_receipt"}}, {1})
    \/ Forces(Controllers, {"stmt_a"}, {"COMPLETED"})
    \/ Faults(Controllers)

Spec == Init /\ [][Next]_vars

\* One controller; the administrator places the new statement in any state
\* of the catalog, and every target is tried with every bundle from there.
NextCatalog ==
    \/ Creates({"c1"}, {"stmt_a"}, {"sha_x"})
    \/ Transitions({"c1"}, {"stmt_a"}, ArtifactBundles, {1, 2})
    \/ /\ statements["stmt_a"].state_version = 1
       /\ Forces({"c1"}, {"stmt_a"}, State)
    \/ Faults({"c1"})

SpecCatalog == Init /\ [][NextCatalog]_vars

-----------------------------------------------------------------------------
(* Vocabulary of the properties *)

\* The rows of one statement in a given state_history table.
RowsOf(history, statement_id) ==
    LET Mine(row) == row.statement_id = statement_id
    IN  SelectSeq(history, Mine)

\* The step commits the unit of work of kind op that controller c holds.
Commits(c, op) ==
    /\ session[c].op = op
    /\ session'[c].op = "idle"
    /\ result'.value.kind # "raised"

StoreUnchanged == UNCHANGED <<statements, state_history>>

\* The value returned is a rejection of the given kind.
IsRejection(value, error_type) ==
    /\ value.kind = "result"
    /\ ~value.success
    /\ value.error_type = error_type

Stale(metadata, statement) ==
    /\ HasKey(metadata, "expected_version")
    /\ Lookup(metadata, "expected_version") # statement.state_version

-----------------------------------------------------------------------------
(* C1 *)

\* C1: of the transition calls on one record that read it at version N and
\* supply expected_version = N, at most one succeeds.  Every successful
\* transition journals its metadata, so no two rows of state_history of one
\* statement carry the same expected_version.
C1_OneWinnerPerVersion ==
    \A i, j \in DOMAIN state_history :
        LET r == state_history[i]
            q == state_history[j]
        IN  ( /\ i < j
              /\ r.statement_id = q.statement_id
              /\ HasKey(r.transition_metadata, "expected_version")
              /\ HasKey(q.transition_metadata, "expected_version") )
            => Lookup(r.transition_metadata, "expected_version")
                 # Lookup(q.transition_metadata, "expected_version")

-----------------------------------------------------------------------------
(* C2 *)

\* C2: the record change and the journal row of a call are persisted
\* together or not at all.  In every step and for every statement: if the
\* record changed, exactly one row of that statement was appended, and it
\* names the record's new state; if the statement's journal changed,
\* exactly one row was appended and the record holds that row's to_state;
\* and a step in which a commit raised changed neither.
C2_AtomicCommit ==
    [][ \A id \in StatementIds :
          LET before == RowsOf(state_history, id)
              after  == RowsOf(state_history', id)
              Appended ==
                  /\ Len(after) = Len(before) + 1
                  /\ SubSeq(after, 1, Len(before)) = before
                  /\ after[Len(after)].to_state = statements'[id].current_state
          IN  /\ statements'[id] # statements[id] => Appended
              /\ after # before => Appended
              /\ result'.value.kind = "raised" => StoreUnchanged
      ]_vars

\* The commit of a transition has raised after an earlier transition was
\* persisted with its row.
C2_FaultAfterCommit ==
    /\ result.method = "transition"
    /\ result.value.kind = "raised"
    /\ result.value.error_type = "StorageFault"
    /\ statements["stmt_a"].state_version = 2
    /\ Len(state_history) = 2

-----------------------------------------------------------------------------
(* C3 *)

\* The value returned is the success of a transition or force_transition.
IsSuccess(value) == value.kind = "result" /\ value.success

\* C3: every transition that returns success has raised the persisted
\* state_version by exactly 1, left the record in the requested state and
\* appended exactly one row, whose from_state is the state the record had
\* before and whose other fields are those of the call.
C3_SuccessAdvancesByOne ==
    [][ (result'.method = "transition" /\ IsSuccess(result'.value)) =>
          LET id == result'.value.statement_id
              n  == Len(state_history)
          IN  /\ statements'[id].state_version = statements[id].state_version + 1
              /\ statements'[id].current_state = result'.value.current_state
              /\ Len(state_history') = n + 1
              /\ SubSeq(state_history', 1, n) = state_history
              /\ state_history'[n + 1].statement_id = id
              /\ state_history'[n + 1].from_state = statements[id].current_state
              /\ state_history'[n + 1].to_state = result'.value.current_state
              /\ state_history'[n + 1].artifacts_created = result'.value.artifacts_created
              /\ state_history'[n + 1].transition_metadata = result'.value.metadata
      ]_vars

-----------------------------------------------------------------------------
(* C4 *)

RejectionKinds ==
    { TransitionError.STATE_NOT_FOUND, TransitionError.CONCURRENT_MODIFICATION,
      TransitionError.INVALID_TRANSITION, TransitionError.MISSING_ARTIFACT }

\* C4: a transition that returns a failure result has changed no row of
\* statements and appended no row to state_history, and its kind is one of
\* the four rejection kinds.
C4_RejectionChangesNothing ==
    [][ ( /\ result'.method = "transition"
          /\ result'.value.kind = "result"
          /\ ~result'.value.success )
        => /\ StoreUnchanged
           /\ result'.value.error_type \in RejectionKinds
      ]_vars

\* A transition of a record at version 2 was rejected for its missing
\* artifacts.
C4_RejectedOnExistingRecord ==
    /\ result.method = "transition"
    /\ IsRejection(result.value, TransitionError.MISSING_ARTIFACT)
    /\ statements[result.value.statement_id].state_version = 2
    /\ Len(state_history) = 2

-----------------------------------------------------------------------------
(* C5, C6, C7: the checks of transition, for every call that can be made in
   a reachable state *)

\* Versions a caller may expect, among them none that a record has.
Versions == 0..(MaxHistory + 1)

\* The names required to enter to_state.
Required(to_state) ==
    { get_required_artifacts(to_state)[i] :
          i \in DOMAIN get_required_artifacts(to_state) }

C7_RequiredArtifacts ==
    /\ [] \A id \in StatementIds, to \in State, a \in ArtifactBundles,
            m \in Metadatas(Versions) :
            ( /\ Exists(id)
              /\ ~Stale(m, statements[id])
              /\ to \in TRANSITION_MATRIX[statements[id].current_state] )
            => TransitionCheck(get_statement(id), to, a, m)
                   = IF Required(to) \subseteq a
                     THEN None
                     ELSE TransitionError.MISSING_ARTIFACT
    /\ [][ /\ ( /\ result'.method = "transition"
                /\ IsRejection(result'.value, TransitionError.MISSING_ARTIFACT) )
              => StoreUnchanged
           /\ \A c \in Controllers :
                Commits(c, "transition")
                => /\ IsSuccess(result'.value)
                   /\ Required(result'.value.current_state)
                          \subseteq result'.value.artifacts_created
       ]_vars

\* CLASSIFIED to ROUTED has succeeded with route_decision in the bundle.
C7_RoutedWithDecision ==
    /\ result.method = "transition"
    /\ IsSuccess(result.value)
    /\ result.value.previous_state = "CLASSIFIED"
    /\ result.value.current_state = "ROUTED"
    /\ "route_decision" \in result.value.artifacts_created
    /\ statements[result.value.statement_id].current_state = "ROUTED"

-----------------------------------------------------------------------------
(* C8 *)

\* C8: for an id without a row, the check of transition (for every target,
\* bundle and metadata) and the check of force_transition give
\* STATE_NOT_FOUND; a result of that kind reports both states as UNKNOWN,
\* and the step that returns it creates no row in either table.
C8_NotFound ==
    /\ [] \A id \in StatementIds :
            ~Exists(id)
            => /\ ForceCheck(get_statement(id)) = TransitionError.STATE_NOT_FOUND
               /\ \A to \in State, a \in ArtifactBundles, m \in Metadatas(Versions) :
                     TransitionCheck(get_statement(id), to, a, m)
                         = TransitionError.STATE_NOT_FOUND
    /\ [][ IsRejection(result'.value, TransitionError.STATE_NOT_FOUND)
           => /\ result'.method \in {"transition", "force_transition"}
              /\ result'.value.previous_state = UNKNOWN
              /\ result'.value.current_state = UNKNOWN
              /\ ~Exists(result'.value.statement_id)
              /\ StoreUnchanged
       ]_vars

\* force_transition was rejected for a statement that has no row, while the
\* other controller holds its uncommitted creation.
C8_ForceOnMissing ==
    /\ result.method = "force_transition"
    /\ IsRejection(result.value, TransitionError.STATE_NOT_FOUND)
    /\ result.value.previous_state = UNKNOWN
    /\ ~Exists(result.value.statement_id)
    /\ \E c \in Controllers :
          /\ session[c].op = "create"
          /\ session[c].statement_id = result.value.statement_id

-----------------------------------------------------------------------------
(* C9, C10 *)

\* The indices of the creation rows among the rows of a statement.
CreationRows(history, statement_id) ==
    { i \in DOMAIN RowsOf(history, statement_id) :
          RowsOf(history, statement_id)[i].from_state = None }

\* C9: a statement has a row exactly when it has its creation row, which is
\* the first of its rows, the only one with from_state NULL, and leads to
\* UPLOADED; and create_statement returns by persisting, in one step, the
\* row in UPLOADED at version 1 and that creation row, for an id that had
\* neither.
C9_CreatedWithItsRow ==
    /\ [] \A id \in StatementIds :
            IF Exists(id)
            THEN /\ CreationRows(state_history, id) = {1}
                 /\ RowsOf(state_history, id)[1].to_state = "UPLOADED"
            ELSE RowsOf(state_history, id) = << >>
    /\ [][ result'.value.kind = "statement"
           => LET id == result'.value.statement_id
              IN  /\ result'.method = "create_statement"
                  /\ ~Exists(id)
                  /\ RowsOf(state_history, id) = << >>
                  /\ statements'[id].current_state = "UPLOADED"
                  /\ statements'[id].state_version = 1
                  /\ \A other \in StatementIds \ {id} :
                        statements'[other] = statements[other]
                  /\ state_history' = Append(state_history,
                        StateHistory(id, None, "UPLOADED", "upload", None, {}, {}))
       ]_vars

\* create_statement has returned the new statement.
C9_Created ==
    /\ result.method = "create_statement"
    /\ result.value.kind = "statement"
    /\ statements[result.value.statement_id].current_state = "UPLOADED"
    /\ statements[result.value.statement_id].state_version = 1
    /\ Len(state_history) = 1

\* C10: once a statement has a row, no step removes it, and the commit of a
\* create_statement for its id raises and changes nothing: the row keeps its
\* state and version and the statement keeps its single creation row.
C10_CreatedOnce ==
    [][ \A id \in StatementIds :
          Exists(id)
          => /\ statements'[id] # NoRow
             /\ CreationRows(state_history', id) = CreationRows(state_history, id)
             /\ \A c \in Controllers :
                   ( /\ session[c].op = "create"
                     /\ session[c].statement_id = id
                     /\ session'[c].op = "idle" )
                   => /\ StoreUnchanged
                      /\ result'.method = "create_statement"
                      /\ result'.value.kind = "raised"
      ]_vars

\* A second create_statement for a statement that has moved on to version 2
\* has raised IntegrityError.
C10_DuplicateRejected ==
    /\ result.method = "create_statement"
    /\ result.value.kind = "raised"
    /\ result.value.error_type = "IntegrityError"
    /\ statements[result.value.statement_id].state_version = 2
    /\ Cardinality(CreationRows(state_history, result.value.statement_id)) = 1

-----------------------------------------------------------------------------
(* C11 *)

\* C11: every force_transition to COMPLETED that returns success has raised
\* the persisted state_version by exactly 1, left the record in COMPLETED
\* and appended exactly one row of that statement, whose metadata carries
\* forced = true with the actor and the reason of the call.
C11_ForceAdvancesByOne ==
    [][ ( /\ result'.method = "force_transition"
          /\ IsSuccess(result'.value)
          /\ result'.value.current_state = "COMPLETED" )
        => LET id == result'.value.statement_id
               n  == Len(state_history)
           IN  /\ statements'[id].state_version = statements[id].state_version + 1
               /\ statements'[id].current_state = "COMPLETED"
               /\ Len(state_history') = n + 1
               /\ SubSeq(state_history', 1, n) = state_history
               /\ state_history'[n + 1].statement_id = id
               /\ state_history'[n + 1].to_state = "COMPLETED"
               /\ \E actor \in Actors, reason \in Reasons :
                     state_history'[n + 1].transition_metadata
                         = ForcedMetadata(actor, reason)
      ]_vars

-----------------------------------------------------------------------------
(* C12 *)

\* Free-form metadata that copies what force_transition journals.
ForgedMetadatas == { ForcedMetadata(actor, reason) : actor \in Actors, reason \in Reasons }

\* transition, with the trigger and the metadata left to the caller.
TransitionsWith(cs, ids, targets, triggers, bundles, metadatas) ==
    \/ \E c \in cs, id \in ids, to \in targets, t \in triggers,
          a \in bundles, m \in metadatas :
          TransitionLoad(c, id, to, t, a, WorkerOf[c], m)
    \/ \E c \in cs : TransitionCommit(c)

\* The API calls transition with a trigger and metadata of its choice, next
\* to an administrator who forces.
NextAudit ==
    \/ Creates({"c1"}, {"stmt_a"}, {"sha_x"})
    \/ TransitionsWith({"c2"}, {"stmt_a"}, {"INGESTED", "COMPLETED"},
                       {"stage_complete", "admin_force"},
                       { {"ingest_receipt"} }, { {} } \cup ForgedMetadatas)
    \/ Forces({"c1"}, {"stmt_a"}, {"COMPLETED", "HUMAN_REVIEW_REQUIRED"})
    \/ Faults(Controllers)

SpecAudit == Init /\ [][NextAudit]_vars

\* The row is tagged as forced: its metadata carries forced = true, an actor
\* and a reason.
TaggedForced(row) ==
    /\ HasKey(row.transition_metadata, "forced")
    /\ Lookup(row.transition_metadata, "forced") = TRUE
    /\ HasKey(row.transition_metadata, "actor")
    /\ HasKey(row.transition_metadata, "reason")

\* C12: a row of state_history is tagged as forced exactly when it is
\* force_transition that appended it.
C12_ForcedTagOnlyByForce ==
    [][ Len(state_history') = Len(state_history) + 1
        => ( TaggedForced(state_history'[Len(state_history')])
             <=> result'.method = "force_transition" )
      ]_vars

-----------------------------------------------------------------------------
(* C13 *)

\* The from_state -> to_state pairs of the rows can be applied in order from
\* the creation row: each starts in the state where the previous one ended.
Replays(rows) ==
    /\ rows # << >>
    /\ rows[1].from_state = None
    /\ \A i \in 2..Len(rows) : rows[i].from_state = rows[i - 1].to_state

\* C13: for every statement that has a record, replaying
\* get_state_history(id) from the creation row ends in the record's
\* current_state, and state_version is the number of its rows.
C13_ReplayReconstructs ==
    \A id \in StatementIds :
        Exists(id)
        => /\ Replays(HistoryOf(id))
           /\ HistoryOf(id)[Len(HistoryOf(id))].to_state = statements[id].current_state
           /\ statements[id].state_version = Len(HistoryOf(id))

-----------------------------------------------------------------------------
(* C14 *)

\* The sequence before is a prefix of the sequence after.
IsPrefix(before, after) ==
    /\ Len(before) <= Len(after)
    /\ SubSeq(after, 1, Len(before)) = before

\* C14: in every step, state_history keeps every row it had, unchanged and
\* in place, and so does the sequence of rows of each statement.
C14_AppendOnly ==
    [][ /\ IsPrefix(state_history, state_history')
        /\ \A id \in StatementIds :
              IsPrefix(HistoryOf(id), RowsOf(state_history', id))
      ]_vars

\* A creation row and a transition row were followed by the row of a
\* force_transition, and a later create_statement for the same id raised.
C14_RowsKept ==
    /\ Len(state_history) >= 3
    /\ state_history[1].from_state = None
    /\ state_history[2].trigger = "stage_complete"
    /\ state_history[3].trigger = "admin_force"
    /\ result.method = "create_statement"
    /\ result.value.kind = "raised"

-----------------------------------------------------------------------------
(* C15 *)

\* A call of transition for statement id is made in this step: it is
\* rejected at once, or it passes its checks and awaits its commit.
TransitionCalled(id) ==
    \/ /\ UNCHANGED session
       /\ result'.method = "transition"
       /\ result'.value.statement_id = id
    \/ \E c \in Controllers :
          /\ session[c].op = "idle"
          /\ session'[c].op = "transition"
          /\ session'[c].statement_id = id

-----------------------------------------------------------------------------
(* C16 *)

\* Two statements, each worked on by a controller of its own; the calls on
\* the two statements interleave freely.
NextTwo ==
    \/ Creates({"c1"}, {"stmt_a"}, {"sha_x"})
    \/ Creates({"c2"}, {"stmt_b"}, {"sha_y"})
    \/ Transitions({"c1"}, {"stmt_a"}, {{}, {"ingest_receipt"}}, {1})
    \/ Transitions({"c2"}, {"stmt_b"}, {{}, {"ingest_receipt"}}, {1})
    \/ Forces({"c1"}, {"stmt_a"}, {"COMPLETED"})
    \/ Forces({"c2"}, {"stmt_b"}, {"COMPLETED"})
    \/ Faults(Controllers)

SpecTwo == Init /\ [][NextTwo]_vars

\* Neither the record nor the rows of the statement change in this step.
StatementUnchanged(id) ==
    /\ statements'[id] = statements[id]
    /\ RowsOf(state_history', id) = RowsOf(state_history, id)

\* The record and the rows of the statement are what its own calls, run
\* one after the other, leave behind.
AsIfAlone(id) ==
    Exists(id)
    => /\ Replays(HistoryOf(id))
       /\ HistoryOf(id)[Len(HistoryOf(id))].to_state = statements[id].current_state
       /\ statements[id].state_version = Len(HistoryOf(id))

-----------------------------------------------------------------------------
(* C17: the identity map of the session *)

\* get_statement hands the Statement object to its caller.
Loaded(statement_id, statement) ==
    [kind |-> "row", success |-> statement # NoRow,
     previous_state |-> None, current_state |-> statement.current_state,
     statement_id |-> statement_id, error |-> None, error_type |-> None,
     artifacts_created |-> {}, metadata |-> {}]

\* The session holds the Statement object of this id: its caller still
\* refers to it, so the identity map has not dropped it.
Holds(c, statement_id) ==
    /\ session[c].op = "idle"
    /\ session[c].statement_id = statement_id

\* What a SELECT of the statement yields in the session of c: the object the
\* identity map holds, with the attributes it was loaded with (the session
\* does not expire them on commit and a row read again does not overwrite
\* them), or else the row as persisted.
SessionView(c, statement_id) ==
    IF Holds(c, statement_id) THEN session[c].statement
    ELSE get_statement(statement_id)

\* StateController.get_statement, whose caller keeps the object it returns.
GetStatement(c, statement_id) ==
    /\ session[c].op = "idle"
    /\ LET statement == SessionView(c, statement_id)
       IN  /\ session' = [session EXCEPT ![c] =
                 IF statement = NoRow THEN Idle
                 ELSE [Idle EXCEPT !.statement_id = statement_id,
                                   !.statement = statement]]
           /\ Return(c, "get_statement", Loaded(statement_id, statement))
    /\ UNCHANGED <<statements, state_history>>

\* The caller drops the object; the identity map, which refers to it weakly,
\* loses it.
Release(c) ==
    /\ session[c].op = "idle"
    /\ session[c].statement_id # None
    /\ session' = [session EXCEPT ![c] = Idle]
    /\ Return(c, None, NoResult)
    /\ UNCHANGED <<statements, state_history>>

\* transition in a session that holds the object of the statement: lines
\* 82-154 work on that object.
TransitionLoadHeld(c, statement_id, to_state, trigger, artifacts, worker_id, metadata) ==
    /\ Holds(c, statement_id)
    /\ LET statement == SessionView(c, statement_id)
           error_type == TransitionCheck(statement, to_state, artifacts, metadata)
       IN  IF error_type # None
           THEN /\ Return(c, "transition", Rejected(statement, statement_id, error_type))
                /\ UNCHANGED session
           ELSE /\ session' = [session EXCEPT ![c] =
                      [op |-> "transition", statement_id |-> statement_id,
                       statement |-> Mutated(statement, to_state),
                       history_entry |->
                           StateHistory(statement_id, statement.current_state,
                                        to_state, trigger, worker_id,
                                        artifacts, metadata),
                       artifacts |-> artifacts, metadata |-> metadata]]
                /\ Return(c, None, NoResult)
    /\ UNCHANGED <<statements, state_history>>

\* c1 reads the statement and may keep the object across its calls; c2
\* creates, transitions and forces the same statement from its own session.
NextSession ==
    \/ Creates({"c2"}, {"stmt_a"}, {"sha_x"})
    \/ Transitions({"c2"}, {"stmt_a"}, {{"ingest_receipt"}}, {1})
    \/ Forces({"c2"}, {"stmt_a"}, {"COMPLETED"})
    \/ GetStatement("c1", "stmt_a")
    \/ Release("c1")
    \/ \E to \in State, t \in Triggers, a \in {{}, {"ingest_receipt"}},
          m \in Metadatas({1, 2}) :
          \/ TransitionLoadHeld("c1", "stmt_a", to, t, a, WorkerOf["c1"], m)
          \/ /\ ~Holds("c1", "stmt_a")
             /\ TransitionLoad("c1", "stmt_a", to, t, a, WorkerOf["c1"], m)
    \/ TransitionCommit("c1")
    \/ Faults(Controllers)

SpecSession == Init /\ [][NextSession]_vars

\* C17: every call of transition is decided on the record as persisted when
\* the call is made: a call that passes its checks passes them on the
\* persisted record, and a rejected call reports the persisted state.
C17_ChecksPersistedRecord ==
    [][ \A id \in StatementIds :
          /\ \A c \in Controllers :
                ( /\ session[c].op = "idle"
                  /\ session'[c].op = "transition"
                  /\ session'[c].statement_id = id )
                => /\ TransitionCheck(get_statement(id),
                                      session'[c].history_entry.to_state,
                                      session'[c].artifacts,
                                      session'[c].metadata) = None
                   /\ session'[c].history_entry.from_state
                          = statements[id].current_state
          /\ ( /\ UNCHANGED session
               /\ result'.method = "transition"
               /\ result'.value.statement_id = id
               /\ Exists(id) )
             => result'.value.previous_state = statements[id].current_state
      ]_vars

-----------------------------------------------------------------------------
(* C18 *)

\* The typed rejection kinds of state/types.py.
TypedErrors == { TransitionError[k] : k \in DOMAIN TransitionError }

\* C18: a step in which transition or force_transition returns success has
\* persisted the record in the state it reports and appended the row of the
\* call; and a call whose unit of work ends with nothing persisted has ended
\* with an exception, which is no TransitionResult and none of the typed
\* kinds.
C18_FaultNotMasked ==
    [][ /\ ( /\ result'.method \in {"transition", "force_transition"}
             /\ IsSuccess(result'.value) )
           => LET id == result'.value.statement_id
                  n  == Len(state_history)
              IN  /\ statements'[id].current_state = result'.value.current_state
                  /\ Len(state_history') = n + 1
                  /\ state_history'[n + 1].statement_id = id
                  /\ state_history'[n + 1].to_state = result'.value.current_state
        /\ \A c \in Controllers :
              ( /\ session[c].op \in {"transition", "force"}
                /\ session'[c].op = "idle"
                /\ StoreUnchanged )
              => /\ result'.method = MethodOf[session[c].op]
                 /\ result'.value.kind = "raised"
                 /\ ~result'.value.success
                 /\ result'.value.error_type \notin TypedErrors
      ]_vars

\* The commit of a force_transition has failed: the call raised and the
\* record is as it was created.
C18_ForceCommitFailed ==
    /\ result.method = "force_transition"
    /\ result.value.kind = "raised"
    /\ result.value.error_type = "StorageFault"
    /\ statements[result.value.statement_id].current_state = "UPLOADED"
    /\ statements[result.value.statement_id].state_version = 1
    /\ Len(state_history) = 1

-----------------------------------------------------------------------------
(* C19 *)

-----------------------------------------------------------------------------
(* C20 *)

\* C20: every record is in a state of the catalog at a version of at least
\* 1; no step lowers the version of a record; a step in which transition or
\* force_transition returns success for a record raises its version by
\* exactly 1, and a step in which a call is rejected leaves it as it was.
C20_VersionCountsSuccesses ==
    /\ [] \A id \in StatementIds :
            Exists(id)
            => /\ statements[id].current_state \in State
               /\ statements[id].state_version \in Nat
               /\ statements[id].state_version >= 1
    /\ [][ \A id \in StatementIds :
              Exists(id)
              => /\ statements'[id].state_version >= statements[id].state_version
                 /\ ( /\ result'.method \in {"transition", "force_transition"}
                      /\ result'.value.statement_id = id
                      /\ IsSuccess(result'.value) )
                    => statements'[id].state_version
                           = statements[id].state_version + 1
                 /\ ( /\ result'.value.statement_id = id
                      /\ result'.value.kind = "result"
                      /\ ~result'.value.success )
                    => statements'[id] = statements[id]
       ]_vars

-----------------------------------------------------------------------------
(* The journal with its created_at column, and the queries *)

\* What utc_now() can read when a row is inserted: the clock never runs
\* behind the newest row, and two readings taken in quick succession can be
\* equal.
utc_now ==
    IF state_history = << >> THEN {1}
    ELSE { state_history[Len(state_history)].created_at,
           state_history[Len(state_history)].created_at + 1 }

\* The history entry as inserted: the column default fills created_at.
Stamped(history_entry, created_at) ==
    [statement_id |-> history_entry.statement_id,
     from_state |-> history_entry.from_state,
     to_state |-> history_entry.to_state,
     trigger |-> history_entry.trigger,
     worker_id |-> history_entry.worker_id,
     artifacts_created |-> history_entry.artifacts_created,
     transition_metadata |-> history_entry.transition_metadata,
     created_at |-> created_at]

\* create_statement, lines 270-271, the creation row with its created_at.
CreateStatementCommitStamped(c) ==
    /\ session[c].op = "create"
    /\ LET u == session[c]
       IN  IF Exists(u.statement_id) \/ HashInUse(u.statement.sha256)
           THEN /\ Return(c, "create_statement", Raised("IntegrityError", u.statement_id))
                /\ UNCHANGED <<statements, state_history>>
           ELSE /\ Len(state_history) < MaxHistory
                /\ statements' = [statements EXCEPT ![u.statement_id] = u.statement]
                /\ \E created_at \in utc_now :
                      state_history' = Append(state_history, Stamped(u.history_entry, created_at))
                /\ Return(c, "create_statement", Created(u.statement_id, u.statement))
    /\ session' = [session EXCEPT ![c] = Idle]

\* transition, lines 156-166, the row with its created_at.
TransitionCommitStamped(c) ==
    /\ session[c].op = "transition"
    /\ Len(state_history) < MaxHistory
    /\ LET u == session[c]
       IN  /\ statements' = UpdateStatement(u)
           /\ \E created_at \in utc_now :
                 state_history' = Append(state_history, Stamped(u.history_entry, created_at))
           /\ Return(c, "transition", TransitionResult(TRUE, u.history_entry.from_state, u.history_entry.to_state, u.statement_id, None, u.artifacts, u.metadata))
    /\ session' = [session EXCEPT ![c] = Idle]

\* What a query returns: its arguments are kept with the value.
QueryValue(args, value) == [kind |-> "value", args |-> args, value |-> value]

\* A query reads and returns; no session, record or row is touched.
Query(c, method, args, value) ==
    /\ session[c].op = "idle"
    /\ Return(c, method, QueryValue(args, value))
    /\ UNCHANGED <<statements, state_history, session>>

ValidateTransition(c, from_state, to_state) ==
    Query(c, "validate_transition", <<from_state, to_state>>,
          validate_transition(from_state, to_state))

GetAllowedTransitions(c, from_state) ==
    Query(c, "get_allowed_transitions", <<from_state>>,
          get_allowed_transitions(from_state))

GetRequiredArtifacts(c, to_state) ==
    Query(c, "get_required_artifacts", <<to_state>>,
          get_required_artifacts(to_state))

\* A get_current_state that loads the Statement object and reads its
\* attribute.
GetCurrentStateOfObject(c, statement_id) ==
    Query(c, "get_current_state", <<statement_id>>,
          IF Exists(statement_id) THEN SessionView(c, statement_id).current_state
          ELSE None)

\* select(Statement.current_state): the column as persisted, None for no row.
GetCurrentState(c, statement_id) ==
    Query(c, "get_current_state", <<statement_id>>,
          IF Exists(statement_id) THEN statements[statement_id].current_state
          ELSE None)

\* The orders in which ORDER BY created_at can return the rows: every
\* arrangement in which created_at does not decrease; rows with equal
\* created_at come in an order the database chooses.
OrderedByCreatedAt(rows) ==
    LET n == Len(rows)
        Perms == { p \in [1..n -> 1..n] :
                     /\ \A i, j \in 1..n : i # j => p[i] # p[j]
                     /\ \A i, j \in 1..n :
                           i < j => rows[p[i]].created_at <= rows[p[j]].created_at }
    IN  { [i \in 1..n |-> rows[p[i]]] : p \in Perms }

GetStateHistory(c, statement_id) ==
    \E rows \in OrderedByCreatedAt(HistoryOf(statement_id)) :
        Query(c, "get_state_history", <<statement_id>>, rows)

\* One controller creates and moves the statements while the other asks.
NextQueries ==
    \/ \E h \in {"sha_x"} : CreateStatementAdd("c1", "stmt_a", h)
    \/ \E h \in {"sha_y"} : CreateStatementAdd("c1", "stmt_b", h)
    \/ CreateStatementCommitStamped("c1")
    \/ \E to \in {"INGESTED", "HUMAN_REVIEW_REQUIRED", "EXTRACTION_READY"},
          a \in {{}, {"ingest_receipt"}} :
          TransitionLoad("c1", "stmt_a", to, "stage_complete", a, WorkerOf["c1"], {})
    \/ TransitionCommitStamped("c1")
    \/ CommitFault("c1")
    \/ \E from_state \in {"UPLOADED", "COMPLETED"} :
          GetAllowedTransitions("c2", from_state)
    \/ \E to_state \in {"INGESTED", "UPLOADED"} :
          GetRequiredArtifacts("c2", to_state)
    \/ \E id \in StatementIds : GetCurrentState("c2", id)
    \/ \E id \in StatementIds : GetStateHistory("c2", id)
    \/ \E id \in StatementIds : GetStatement("c2", id)
    \/ Release("c2")

SpecQueries == Init /\ [][NextQueries]_vars

\* The catalog is asked about every state and every pair of states.
NextLegality ==
    \/ \E c \in Controllers, from_state \in State, to_state \in State :
          ValidateTransition(c, from_state, to_state)
    \/ \E c \in Controllers, from_state \in State :
          GetAllowedTransitions(c, from_state)
    \/ \E c \in Controllers, to_state \in State :
          GetRequiredArtifacts(c, to_state)

SpecLegality == Init /\ [][NextLegality]_vars

-----------------------------------------------------------------------------
(* The upload endpoint and IngestService.ingest *)

\* What the endpoint answers.
Response(status_code, statement_id, sha256, status) ==
    [kind |-> "response", status_code |-> status_code,
     statement_id |-> statement_id, sha256 |-> sha256, status |-> status]

Respond(value) == result' = [method |-> "upload_statement", value |-> value]

\* upload_statement, lines 71-111: the hash of the content is looked up;
\* 409 when a statement has it, else the request goes on to ingest.
UploadStatement(c, sha256) ==
    /\ uploads[c].pc = "none"
    /\ session[c].op = "idle"
    /\ IF HashInUse(sha256)
       THEN /\ Respond(Response(409, None, sha256, None))
            /\ UNCHANGED uploads
       ELSE /\ uploads' = [uploads EXCEPT ![c] =
                 [pc |-> "ingest", statement_id |-> None, sha256 |-> sha256]]
            /\ result' = [method |-> None, value |-> NoResult]
    /\ UNCHANGED <<statements, state_history, session, storage>>

\* ingest, lines 50-59: a new id is generated and the file is copied to
\* storage under it.
IngestCopy(c, statement_id) ==
    /\ uploads[c].pc = "ingest"
    /\ ~Exists(statement_id)
    /\ statement_id \notin storage.pdfs
    /\ storage' = [storage EXCEPT !.pdfs = @ \cup {statement_id}]
    /\ uploads' = [uploads EXCEPT ![c].pc = "create_statement",
                                  ![c].statement_id = statement_id]
    /\ result' = [method |-> None, value |-> NoResult]
    /\ UNCHANGED <<statements, state_history, session>>

\* ingest, lines 62-69: await create_statement(...).
IngestCreateStatement(c) ==
    /\ uploads[c].pc = "create_statement"
    /\ \/ CreateStatementAdd(c, uploads[c].statement_id, uploads[c].sha256)
       \/ CreateStatementCommit(c)

\* ingest, lines 72-88: the receipt is built and written to the artifacts
\* directory of the statement.
IngestWriteReceipt(c) ==
    /\ uploads[c].pc = "write_receipt"
    /\ storage' = [storage EXCEPT !.artifacts = @ \cup {uploads[c].statement_id}]
    /\ uploads' = [uploads EXCEPT ![c].pc = "transition"]
    /\ result' = [method |-> None, value |-> NoResult]
    /\ UNCHANGED <<statements, state_history, session>>

\* ingest, lines 91-96: await transition(to INGESTED, ingest_receipt).
IngestTransition(c) ==
    /\ uploads[c].pc = "transition"
    /\ \/ TransitionLoad(c, uploads[c].statement_id, "INGESTED",
                         "ingestion_complete", {"ingest_receipt"}, None, {})
       \/ TransitionCommit(c)

\* The commit of the call ingest awaits fails.
IngestFault(c) ==
    /\ uploads[c].pc \in {"create_statement", "transition"}
    /\ CommitFault(c)

\* ingest line 98 and upload_statement lines 113-119: the receipt is
\* returned and the endpoint answers 201 with status INGESTED.
IngestReturn(c) ==
    /\ uploads[c].pc = "return_receipt"
    /\ Respond(Response(201, uploads[c].statement_id, uploads[c].sha256, "INGESTED"))
    /\ uploads' = [uploads EXCEPT ![c] = NoUpload]
    /\ UNCHANGED <<statements, state_history, session, storage>>

\* An exception of the controller leaves ingest and the endpoint, which
\* catches nothing: the request ends with status 500.
IngestRaise(c) ==
    /\ uploads[c].pc = "raised"
    /\ Respond(Response(500, uploads[c].statement_id, uploads[c].sha256, None))
    /\ uploads' = [uploads EXCEPT ![c] = NoUpload]
    /\ UNCHANGED <<statements, state_history, session, storage>>

\* force_transition to human review, called from a session that serves no
\* upload.
AdminForce(c) ==
    /\ uploads[c].pc = "none"
    /\ Forces({c}, StatementIds, {"HUMAN_REVIEW_REQUIRED"})

\* Two requests upload documents, of the same content or not, while an
\* administrator forces statements, from a session that serves no upload,
\* to human review.
NextIngest ==
    \/ \E c \in Controllers, h \in Hashes : UploadStatement(c, h)
    \/ \E c \in Controllers, id \in StatementIds : IngestCopy(c, id)
    \/ \E c \in Controllers : IngestCreateStatement(c)
    \/ \E c \in Controllers : IngestWriteReceipt(c)
    \/ \E c \in Controllers : IngestTransition(c)
    \/ \E c \in Controllers : IngestFault(c)
    \/ \E c \in Controllers : IngestReturn(c)
    \/ \E c \in Controllers : IngestRaise(c)
    \/ \E c \in Controllers : AdminForce(c)

SpecIngest == Init /\ [][NextIngest]_vars

-----------------------------------------------------------------------------
(* C21 *)

\* The 17 edges of the MVP transition graph.
MvpGraph ==
    { <<"UPLOADED", "INGESTED">>, <<"UPLOADED", "HUMAN_REVIEW_REQUIRED">>,
      <<"INGESTED", "CLASSIFIED">>,
      <<"CLASSIFIED", "ROUTED">>,
      <<"ROUTED", "TEMPLATE_SELECTED">>, <<"ROUTED", "TEMPLATE_MISSING">>,
      <<"TEMPLATE_SELECTED", "EXTRACTION_READY">>,
      <<"TEMPLATE_MISSING", "HUMAN_REVIEW_REQUIRED">>,
      <<"EXTRACTION_READY", "EXTRACTING">>,
      <<"EXTRACTING", "RECONCILING">>, <<"EXTRACTING", "EXTRACTION_FAILED">>,
      <<"EXTRACTION_FAILED", "HUMAN_REVIEW_REQUIRED">>,
      <<"RECONCILING", "COMPLETED">>, <<"RECONCILING", "RECONCILIATION_FAILED">>,
      <<"RECONCILIATION_FAILED", "HUMAN_REVIEW_REQUIRED">>,
      <<"HUMAN_REVIEW_REQUIRED", "COMPLETED">>,
      <<"HUMAN_REVIEW_REQUIRED", "EXTRACTION_READY">> }

\* C21: the catalog has 13 states and an entry for each; for every pair of
\* states is_valid_transition and validate_transition hold exactly for the
\* 17 edges of the graph, get_allowed_transitions gives exactly the
\* destinations the graph lists, and that is what the calls return.
C21_LegalityIsMvpGraph ==
    /\ [] ( /\ Cardinality(State) = 13
            /\ Cardinality(MvpGraph) = 17
            /\ DOMAIN TRANSITION_MATRIX = State
            /\ \A from_state \in State :
                  /\ get_allowed_transitions(from_state)
                         = { to_state \in State : <<from_state, to_state>> \in MvpGraph }
                  /\ \A to_state \in State :
                        /\ is_valid_transition(from_state, to_state)
                               <=> <<from_state, to_state>> \in MvpGraph
                        /\ validate_transition(from_state, to_state)
                               <=> <<from_state, to_state>> \in MvpGraph )
    /\ [][ /\ result'.method = "validate_transition"
              => ( result'.value.value <=> result'.value.args \in MvpGraph )
           /\ result'.method = "get_allowed_transitions"
              => result'.value.value
                     = { to_state \in State :
                           <<result'.value.args[1], to_state>> \in MvpGraph }
       ]_vars

\* validate_transition was asked about the edge back from review to
\* extraction and about no other, and said yes.
C21_ReviewBackToExtraction ==
    /\ result.method = "validate_transition"
    /\ result.value.args = <<"HUMAN_REVIEW_REQUIRED", "EXTRACTION_READY">>
    /\ result.value.value = TRUE

-----------------------------------------------------------------------------
(* C22 *)

\* The artifact names the table of the specification asks for on entry.
ArtifactTable(to_state) ==
    CASE to_state = "INGESTED"    -> {"ingest_receipt"}
      [] to_state = "CLASSIFIED"  -> {"classification"}
      [] to_state = "ROUTED"      -> {"route_decision"}
      [] to_state = "RECONCILING" -> {"extraction_result", "transactions"}
      [] to_state = "COMPLETED"   -> {"reconciliation", "final_transactions"}
      [] OTHER                    -> {}

\* C22: for every state the names required on entry are those of the table
\* and nothing is required for the other eight; a call on an existing
\* record, not stale, along a legal edge passes every check exactly when the
\* bundle holds the names of the table, so with an empty bundle it passes
\* exactly for the destinations outside the table; and every transition that
\* succeeds carried the names of the table for its destination.
C22_ArtifactTableExact ==
    /\ [] ( /\ \A to \in State :
                 /\ Required(to) = ArtifactTable(to)
                 /\ Len(get_required_artifacts(to)) = Cardinality(ArtifactTable(to))
            /\ { to \in State : get_required_artifacts(to) # << >> }
                   = {"INGESTED", "CLASSIFIED", "ROUTED", "RECONCILING", "COMPLETED"}
            /\ \A id \in StatementIds, to \in State, a \in ArtifactBundles :
                 ( /\ Exists(id)
                   /\ to \in TRANSITION_MATRIX[statements[id].current_state] )
                 => ( TransitionCheck(get_statement(id), to, a, {}) = None
                        <=> ArtifactTable(to) \subseteq a ) )
    /\ [][ (result'.method = "transition" /\ IsSuccess(result'.value))
           => ArtifactTable(result'.value.current_state)
                  \subseteq result'.value.artifacts_created
       ]_vars

\* ROUTED to TEMPLATE_SELECTED has succeeded with an empty bundle.
C22_TemplateSelectedWithNothing ==
    /\ result.method = "transition"
    /\ IsSuccess(result.value)
    /\ result.value.previous_state = "ROUTED"
    /\ result.value.current_state = "TEMPLATE_SELECTED"
    /\ result.value.artifacts_created = {}
    /\ statements[result.value.statement_id].current_state = "TEMPLATE_SELECTED"

-----------------------------------------------------------------------------
(* C23 *)

\* The kinds the controller reports.
ReportedKinds ==
    { TransitionError.STATE_NOT_FOUND, TransitionError.CONCURRENT_MODIFICATION,
      TransitionError.INVALID_TRANSITION, TransitionError.MISSING_ARTIFACT }

\* C23: the checks of transition and force_transition give no kind or one
\* of the four reported kinds, never VALIDATION_FAILED or TIMEOUT; and every
\* result the two methods return either has success set and neither an
\* error kind nor an error message, or has success unset and carries a
\* message and one of the four kinds.
C23_ResultTagging ==
    /\ [] ( /\ Cardinality(ReportedKinds) = 4
            /\ \A id \in StatementIds :
                 /\ ForceCheck(get_statement(id)) \in {None, TransitionError.STATE_NOT_FOUND}
                 /\ \A to \in State, a \in ArtifactBundles, m \in Metadatas(Versions) :
                      TransitionCheck(get_statement(id), to, a, m)
                          \in {None} \cup ReportedKinds )
    /\ [][ ( /\ result'.method \in {"transition", "force_transition"}
             /\ result'.value.kind = "result" )
           => IF result'.value.success
              THEN /\ result'.value.error_type = None
                   /\ result'.value.error = None
              ELSE /\ result'.value.error_type \in ReportedKinds
                   /\ result'.value.error # None
       ]_vars

\* A transition into INGESTED without the receipt has been rejected, with
\* the kind and the message of the artifact check.
C23_MissingArtifactReported ==
    /\ result.method = "transition"
    /\ result.value.kind = "result"
    /\ ~result.value.success
    /\ result.value.error_type = TransitionError.MISSING_ARTIFACT
    /\ result.value.error = "Missing required artifacts"
    /\ result.value.previous_state = "UPLOADED"

-----------------------------------------------------------------------------
(* C24 *)

\* C24: a call of transition that passes its checks has read the state the
\* record has when the call is made, and the success it returns at its
\* commit reports that state as previous_state, the requested state as
\* current_state, the names of the supplied artifacts and the supplied
\* metadata; a call rejected for an existing record reports the persisted
\* state of the record as previous_state and as current_state and leaves
\* the record as it is.
C24_ResultReportsStates ==
    [][ \A c \in Controllers :
          /\ ( /\ session[c].op = "idle"
               /\ session'[c].op = "transition" )
             => session'[c].history_entry.from_state
                    = statements[session'[c].statement_id].current_state
          /\ Commits(c, "transition")
             => /\ IsSuccess(result'.value)
                /\ result'.value.statement_id = session[c].statement_id
                /\ result'.value.previous_state = session[c].history_entry.from_state
                /\ result'.value.current_state = session[c].history_entry.to_state
                /\ result'.value.artifacts_created = session[c].artifacts
                /\ result'.value.metadata = session[c].metadata
          /\ ( /\ result'.method = "transition"
               /\ result'.value.kind = "result"
               /\ ~result'.value.success
               /\ Exists(result'.value.statement_id) )
             => /\ result'.value.previous_state
                       = statements[result'.value.statement_id].current_state
                /\ result'.value.current_state
                       = statements'[result'.value.statement_id].current_state
                /\ UNCHANGED statements
      ]_vars

-----------------------------------------------------------------------------
(* C25 *)

QueryMethods ==
    { "get_current_state", "get_statement", "get_state_history",
      "get_allowed_transitions", "get_required_artifacts" }

\* C25: a step in which one of the five queries returns leaves every record
\* and every journal row as it is and touches no other session's unit of
\* work; get_current_state returns the persisted current_state of the
\* record of the id it was asked about, and None when there is no record.
C25_QueriesReadOnly ==
    [][ /\ result'.method \in QueryMethods
           => /\ UNCHANGED <<statements, state_history>>
              /\ \A c \in Controllers :
                    session[c].op # "idle" => session'[c] = session[c]
        /\ result'.method = "get_current_state"
           => LET id == result'.value.args[1]
              IN  /\ Exists(id) => result'.value.value = statements[id].current_state
                  /\ ~Exists(id) => result'.value.value = None
      ]_vars

\* get_current_state has returned the persisted state of a statement whose
\* object, as the asking session still holds it, is one transition behind.
C25_CurrentStateAfterTransition ==
    /\ result.method = "get_current_state"
    /\ result.value.args = <<"stmt_a">>
    /\ result.value.value = "INGESTED"
    /\ statements["stmt_a"].current_state = "INGESTED"
    /\ Holds("c2", "stmt_a")
    /\ session["c2"].statement.current_state = "UPLOADED"

-----------------------------------------------------------------------------
(* C26 *)

\* C26: get_state_history returns the rows of the statement it was asked
\* about, all of them and no others, in the order in which they were
\* committed.
C26_HistoryInCommitOrder ==
    [][ result'.method = "get_state_history"
        => result'.value.value = RowsOf(state_history, result'.value.args[1])
      ]_vars

-----------------------------------------------------------------------------
(* C27 *)

\* The row a successful transition of ingest writes.
IsIngestRow(row, statement_id) ==
    /\ row.statement_id = statement_id
    /\ row.from_state = "UPLOADED"
    /\ row.to_state = "INGESTED"
    /\ row.trigger = "ingestion_complete"
    /\ row.artifacts_created = {"ingest_receipt"}

\* C27: when the endpoint answers 201 with status INGESTED for a statement,
\* the record of the statement exists and the journal holds the row of its
\* transition from UPLOADED to INGESTED with the ingest_receipt artifact;
\* and if no other caller has moved the statement, the record is at
\* INGESTED with version 2 and has two journal rows.
C27_ReceiptMeansIngested ==
    [][ ( /\ result'.method = "upload_statement"
          /\ result'.value.status_code = 201 )
        => LET id == result'.value.statement_id
               rows == RowsOf(state_history, id)
           IN  /\ result'.value.status = "INGESTED"
               /\ Exists(id)
               /\ \E i \in DOMAIN rows : IsIngestRow(rows[i], id)
               /\ ( \A i \in DOMAIN rows : rows[i].trigger # "admin_force" )
                  => /\ statements[id].current_state = "INGESTED"
                     /\ statements[id].state_version = 2
                     /\ Len(rows) = 2
      ]_vars

-----------------------------------------------------------------------------
(* C28 *)

-----------------------------------------------------------------------------
(* C29 *)

\* The kinds in the order of their checks: existence, version, legality,
\* artifacts.
CheckOrder ==
    << TransitionError.STATE_NOT_FOUND, TransitionError.CONCURRENT_MODIFICATION,
       TransitionError.INVALID_TRANSITION, TransitionError.MISSING_ARTIFACT >>

\* Which of the four checks a request fails, each taken by itself.
Fails(statement_id, to_state, artifacts, metadata) ==
    LET found == Exists(statement_id)
    IN  << ~found,
           found /\ Stale(metadata, statements[statement_id]),
           found /\ <<statements[statement_id].current_state, to_state>> \notin MvpGraph,
           found /\ ~(ArtifactTable(to_state) \subseteq artifacts) >>

\* The states from which some legal transition requires an artifact.
StatesBeforeArtifacts ==
    { edge[1] : edge \in { e \in MvpGraph : ArtifactTable(e[2]) # {} } }

-----------------------------------------------------------------------------
(* C30 *)

\* How far a request has come in ingest.
Position(pc) ==
    CASE pc = "none"             -> 0
      [] pc = "ingest"           -> 1
      [] pc = "create_statement" -> 2
      [] pc = "write_receipt"    -> 3
      [] pc = "transition"       -> 4
      [] pc = "return_receipt"   -> 5
      [] pc = "raised"           -> 6

-----------------------------------------------------------------------------
(* C31 *)

\* C31: every commit of a transition that returns success takes the
\* persisted record from the state it has just before the commit to the
\* state it has just after along an edge of the transition matrix, and the
\* artifacts required for the new state are among those of the call.
C31_CommitFollowsEdge ==
    [][ \A c \in Controllers :
          ( /\ Commits(c, "transition")
            /\ IsSuccess(result'.value) )
          => LET id == result'.value.statement_id
             IN  /\ statements'[id].current_state
                        \in TRANSITION_MATRIX[statements[id].current_state]
                 /\ Required(statements'[id].current_state)
                        \subseteq result'.value.artifacts_created
      ]_vars

-----------------------------------------------------------------------------
(* C32 *)

\* C32: every transition or force_transition that returns success adds one
\* journal row of its statement and one to the persisted state_version, so
\* that in every state a record with n journal rows (its creation row and
\* one for each success) is at version n.
C32_NoIncrementLost ==
    /\ [] \A id \in StatementIds :
            Exists(id)
            => statements[id].state_version = Len(RowsOf(state_history, id))
    /\ [][ ( /\ result'.method \in {"transition", "force_transition"}
             /\ IsSuccess(result'.value) )
           => LET id == result'.value.statement_id
              IN  /\ Len(RowsOf(state_history', id))
                         = Len(RowsOf(state_history, id)) + 1
                  /\ statements'[id].state_version
                         = Len(RowsOf(state_history', id))
       ]_vars

-----------------------------------------------------------------------------
(* C33 *)

\* C33: the rows of each statement that has a record form a chain: the
\* first has from_state NULL and to_state UPLOADED, each later one starts,
\* with a from_state that is not NULL, in the to_state of the row before
\* it, and the last one ends in the current_state of the record; a
\* statement without a record has no rows.
C33_JournalIsChain ==
    \A id \in StatementIds :
        LET rows == RowsOf(state_history, id)
        IN  IF ~Exists(id) THEN rows = << >>
            ELSE /\ rows # << >>
                 /\ rows[1].from_state = None
                 /\ rows[1].to_state = "UPLOADED"
                 /\ \A i \in 2..Len(rows) :
                       /\ rows[i].from_state # None
                       /\ rows[i].from_state = rows[i - 1].to_state
                 /\ rows[Len(rows)].to_state = statements[id].current_state

-----------------------------------------------------------------------------
(* C34 *)

\* One controller; the administrator forces the statement from whatever
\* state it is in to any state of the catalog, between transitions.
NextForce ==
    \/ Creates({"c1"}, {"stmt_a"}, {"sha_x"})
    \/ Transitions({"c1"}, {"stmt_a"}, {{}}, {1})
    \/ Forces({"c1"}, {"stmt_a"}, State)
    \/ Faults({"c1"})

SpecForce == Init /\ [][NextForce]_vars

\* C34: force_transition is rejected only for a statement without a record,
\* and its commit returns success with the record in the target state,
\* whatever the state it was in and whatever the target; and every step
\* that takes a record out of COMPLETED, or into UPLOADED from another
\* state, is a force_transition returning success, whose journal row, the
\* one the step appends, is tagged as forced.
C34_OnlyForceLeavesCompleted ==
    /\ [] \A id \in StatementIds :
            Exists(id) => ForceCheck(get_statement(id)) = None
    /\ [][ /\ ( /\ result'.method = "force_transition"
                /\ result'.value.kind = "result"
                /\ ~result'.value.success )
              => ~Exists(result'.value.statement_id)
           /\ \A c \in Controllers :
                Commits(c, "force")
                => /\ IsSuccess(result'.value)
                   /\ result'.value.current_state = session[c].history_entry.to_state
                   /\ statements'[session[c].statement_id].current_state
                          = session[c].history_entry.to_state
           /\ \A id \in StatementIds :
                ( /\ Exists(id)
                  /\ statements'[id].current_state # statements[id].current_state
                  /\ \/ statements[id].current_state = "COMPLETED"
                     \/ statements'[id].current_state = "UPLOADED" )
                => /\ result'.method = "force_transition"
                   /\ IsSuccess(result'.value)
                   /\ result'.value.statement_id = id
                   /\ Len(state_history') = Len(state_history) + 1
                   /\ state_history'[Len(state_history')].statement_id = id
                   /\ TaggedForced(state_history'[Len(state_history')])
       ]_vars

-----------------------------------------------------------------------------
(* C35 *)

\* The columns of a statement other than current_state and state_version.
OtherColumns == DOMAIN NoRow \ {"current_state", "state_version"}

\* C35: a step in which transition or force_transition returns success
\* leaves every column of the statement's row other than current_state and
\* state_version as it was, leaves the rows of the other statements as they
\* were, and appends one journal row, which for transition lists the names
\* of the supplied artifacts; the artifacts column of the record stays
\* empty.
C35_OnlyStateAndVersion ==
    [][ ( /\ result'.method \in {"transition", "force_transition"}
          /\ IsSuccess(result'.value) )
        => LET id == result'.value.statement_id
               n  == Len(state_history)
           IN  /\ \A column \in OtherColumns :
                     statements'[id][column] = statements[id][column]
               /\ statements'[id].artifacts = {}
               /\ \A other \in StatementIds \ {id} :
                     statements'[other] = statements[other]
               /\ Len(state_history') = n + 1
               /\ state_history'[n + 1].statement_id = id
               /\ state_history'[n + 1].artifacts_created
                      = result'.value.artifacts_created
               /\ result'.method = "force_transition"
                  => state_history'[n + 1].artifacts_created = {}
      ]_vars

\* A transition into INGESTED carrying the receipt has succeeded; the row
\* of the statement has its file columns and an empty artifacts column, and
\* the name of the receipt is in the journal row.
C35_ReceiptOnlyInJournal ==
    /\ result.method = "transition"
    /\ IsSuccess(result.value)
    /\ result.value.artifacts_created = {"ingest_receipt"}
    /\ statements[result.value.statement_id]
           = StatementRow("sha_x", "INGESTED", 2)
    /\ state_history[Len(state_history)].artifacts_created = {"ingest_receipt"}

-----------------------------------------------------------------------------
(* C36 *)

\* The states reached from the states of S by at most n legal edges.
Within(S, n) ==
    LET Grow[k \in 0..n] ==
            IF k = 0 THEN S
            ELSE LET reached == Grow[k - 1]
                 IN  reached \cup { to \in State :
                                      \E from \in reached :
                                          is_valid_transition(from, to) }
    IN  Grow[n]

\* For each state, the states reachable from it by legal edges (a path that
\* visits no state twice has at most 12 edges).
Reachable == [s \in State |-> Within({s}, Cardinality(State) - 1)]

ReachableFrom(from_state) == Reachable[from_state]

-----------------------------------------------------------------------------
(* C37 *)

\* The longest sequence of legal edges looked for.
MaxPath == Cardinality(State)

\* For each state s and each k, the states in which a sequence of exactly k
\* legal edges from s can end when it enters HUMAN_REVIEW_REQUIRED nowhere.
EndsAvoidingReview ==
    [s \in State |->
        LET Ends[k \in 0..MaxPath] ==
                IF k = 0 THEN {s}
                ELSE LET before == Ends[k - 1]
                     IN  { to \in State \ {"HUMAN_REVIEW_REQUIRED"} :
                             \E from \in before : is_valid_transition(from, to) }
        IN  [k \in 0..MaxPath |-> Ends[k]] ]

\* The number of edges of the longest such sequence from s.
Rank(s) ==
    CHOOSE k \in 0..MaxPath :
        /\ EndsAvoidingReview[s][k] # {}
        /\ \A j \in (k + 1)..MaxPath : EndsAvoidingReview[s][j] = {}

\* C37: no state has a legal edge to itself and none has one to UPLOADED;
\* a sequence of legal edges that enters HUMAN_REVIEW_REQUIRED nowhere
\* returns to no state and has at most 8 edges, 8 being reached from
\* UPLOADED; HUMAN_REVIEW_REQUIRED lies on a cycle; and every transition
\* that succeeds follows such an edge and, when it neither leaves nor
\* enters HUMAN_REVIEW_REQUIRED, takes the record to a state from which
\* the longest sequence is shorter; in the journal of a record, successive
\* rows written by transition that enter HUMAN_REVIEW_REQUIRED nowhere are
\* at most 8 and name no state twice.
C37_CyclesThroughReview ==
    /\ [] ( /\ \A s \in State :
                 /\ ~is_valid_transition(s, s)
                 /\ ~is_valid_transition(s, "UPLOADED")
                 /\ \A k \in 1..MaxPath : s \notin EndsAvoidingReview[s][k]
                 /\ \A k \in 9..MaxPath : EndsAvoidingReview[s][k] = {}
                 /\ Rank(s) <= 8
            /\ Rank("UPLOADED") = 8
            /\ "HUMAN_REVIEW_REQUIRED" \in
                   Within(get_allowed_transitions("HUMAN_REVIEW_REQUIRED"), MaxPath)
            /\ \A id \in StatementIds :
                 LET rows == RowsOf(state_history, id)
                     Run(i, j) ==
                         \A k \in i..j :
                             /\ rows[k].from_state # None
                             /\ ~TaggedForced(rows[k])
                             /\ rows[k].to_state # "HUMAN_REVIEW_REQUIRED"
                 IN  \A i \in 1..Len(rows) : \A j \in i..Len(rows) :
                        Run(i, j) =>
                            /\ j - i + 1 <= 8
                            /\ rows[i].from_state # rows[j].to_state
                            /\ i < j => rows[i].to_state # rows[j].to_state )
    /\ [][ \A c \in Controllers :
             ( /\ Commits(c, "transition")
               /\ IsSuccess(result'.value) )
             => LET from == result'.value.previous_state
                    to   == result'.value.current_state
                IN  /\ from # to
                    /\ to # "UPLOADED"
                    /\ ( from # "HUMAN_REVIEW_REQUIRED" /\ to # "HUMAN_REVIEW_REQUIRED" )
                       => Rank(to) < Rank(from)
       ]_vars

\* A statement in human review has been sent back to extraction: the step
\* that closes the cycle through HUMAN_REVIEW_REQUIRED.
C37_BackFromReview ==
    /\ result.method = "transition"
    /\ IsSuccess(result.value)
    /\ result.value.previous_state = "HUMAN_REVIEW_REQUIRED"
    /\ result.value.current_state = "EXTRACTION_READY"
    /\ statements[result.value.statement_id].current_state = "EXTRACTION_READY"

====
